---- MODULE Spec2Model ----
(***************************************************************************)
(* Model of the IndexFund contract (src/src/lib.rs): the curator           *)
(* registration, the validated batch update of asset weights and the two   *)
(* views.  One action per contract method; every method runs to completion *)
(* in one step and leaves its execution outcome in `outcome`, which the    *)
(* host hands back to the caller (Complete) before the next call starts.   *)
(***************************************************************************)
EXTENDS Integers, Sequences, FiniteSets, TLC

\* The four fields of struct IndexFund (lib.rs:29-36), the execution outcome
\* of the call the host ran last (none once it has been returned), and
\* whether the deployed build traps on integer overflow or wraps: both are
\* builds of line 91, and a deployed contract is one of them for good.
VARIABLES curator_address, assets, last_rebalance, rebalance_interval, outcome,
          overflow_checks

vars == <<curator_address, assets, last_rebalance, rebalance_interval, outcome,
          overflow_checks>>

(***************************************************************************)
(* Bounds and input domains.                                               *)
(***************************************************************************)
MaxBatch == 2

Accounts == {"curator.near", "unauthorized.near"}

AssetIds == {"asset1.near", "asset2.near"}

Timestamps == {100, 200}

\* env::storage_byte_cost() values the host may report and the deposits
\* attached around the resulting thresholds (amounts in yoctoNEAR).
StorageByteCosts == {1, 2}

Deposits == {0, 99, 100, 101, 199, 200, 201}

Intervals == {0, 1}

None == "None"

(***************************************************************************)
(* u64 arithmetic.  A U64 is kept at its full width as four 16-bit limbs,  *)
(* least significant first, so that the sum of line 91 can overflow.       *)
(***************************************************************************)
Limb == 2 ^ 16

U64(n) == <<n % Limb, (n \div Limb) % Limb, 0, 0>>

\* 2^63 + 5000 = 9223372036854780808
BigWeight == <<5000, 0, 0, 2 ^ 15>>

\* u64::MAX = 2^64 - 1
MaxWeight == <<Limb - 1, Limb - 1, Limb - 1, Limb - 1>>

\* a + b in u64: the wrapped value (mod 2^64) and whether the addition
\* overflowed.
U64Add(a, b) ==
    LET s1 == a[1] + b[1]
        s2 == a[2] + b[2] + (s1 \div Limb)
        s3 == a[3] + b[3] + (s2 \div Limb)
        s4 == a[4] + b[4] + (s3 \div Limb)
    IN  [value |-> <<s1 % Limb, s2 % Limb, s3 % Limb, s4 % Limb>>,
         overflow |-> (s4 \div Limb) > 0]

TotalBps == 10000

Weights == {U64(0), U64(4000), U64(6000), U64(TotalBps), BigWeight, MaxWeight}

\* struct AssetWeight
AssetWeight == [weight : Weights, asset_address : AssetIds]

RECURSIVE SeqsUpTo(_, _)
SeqsUpTo(S, n) ==
    IF n = 0 THEN {<<>>}
    ELSE LET shorter == SeqsUpTo(S, n - 1)
         IN  shorter \cup {Append(s, x) : s \in {t \in shorter : Len(t) = n - 1}, x \in S}

Batches == SeqsUpTo(AssetWeight, MaxBatch)

(***************************************************************************)
(* Panic messages of the contract, under the names the specification uses. *)
(***************************************************************************)
Ok == "Ok"
InvalidArgument == "Invalid rebalance interval"
AlreadyRegistered == "curator already registered"
InsufficientPayment == "Insufficient storage deposit"
NotRegistered == "curator not registered"
Unauthorized == "Unauthorized"
InvalidWeightSum == "Final weights must sum to 100%"
ArithmeticOverflow == "attempt to add with overflow"

(***************************************************************************)
(* UnorderedMap<AssetId, AssetHolding>: a vector of keys and a parallel    *)
(* vector of values, iterated in index order.                              *)
(***************************************************************************)
EmptyMap == [keys |-> <<>>, values |-> <<>>]

MapContains(m, k) == \E i \in 1..Len(m.keys) : m.keys[i] = k

MapIndex(m, k) == CHOOSE i \in 1..Len(m.keys) : m.keys[i] = k

MapGet(m, k) == m.values[MapIndex(m, k)]

MapInsert(m, k, v) ==
    IF MapContains(m, k)
    THEN [m EXCEPT !.values[MapIndex(m, k)] = v]
    ELSE [keys |-> Append(m.keys, k), values |-> Append(m.values, v)]

MapKeySet(m) == {m.keys[i] : i \in 1..Len(m.keys)}

(***************************************************************************)
(* Construction.                                                           *)
(***************************************************************************)
DefaultInterval == 86400

default ==
    [curator_address |-> None, assets |-> EmptyMap,
     last_rebalance |-> 0, rebalance_interval |-> DefaultInterval]

\* mutant: the interval is not validated
new_unchecked(interval) ==
    [err |-> Ok,
     self |-> [curator_address |-> None, assets |-> EmptyMap,
               last_rebalance |-> 0, rebalance_interval |-> interval]]

\* line 53-61
new(interval) ==
    IF ~(interval > 0)
    THEN [err |-> InvalidArgument, self |-> default]
    ELSE [err |-> Ok,
          self |-> [curator_address |-> None, assets |-> EmptyMap,
                    last_rebalance |-> 0, rebalance_interval |-> interval]]

\* The ways a contract comes to life: used as deployed (Default) or through
\* the #[init] method.  A `new` that panics writes no state, and the methods
\* then run on the Default state.
Constructed ==
    {[self |-> default, outcome |-> [method |-> "default", err |-> Ok]]}
        \cup {[self |-> new(i).self,
               outcome |-> [method |-> "new", rebalance_interval |-> i,
                            err |-> new(i).err]] : i \in Intervals}

(***************************************************************************)
(* register_curator                                                        *)
(***************************************************************************)
StorageBytes == 100

\* mutant: the threshold itself is refused (> for >=)
deposit_sufficient_strict(attached_deposit, storage_byte_cost) ==
    attached_deposit > storage_byte_cost * StorageBytes

\* line 66-70
deposit_sufficient(attached_deposit, storage_byte_cost) ==
    attached_deposit >= storage_byte_cost * StorageBytes

\* mutant: the registration guard always passes
curator_is_none_always(self_curator) == TRUE

\* line 65
curator_is_none(self_curator) == self_curator = None

\* mutant: a paid registration replaces the curator
register_curator_replacing(self_curator, attached_deposit, storage_byte_cost, curator) ==
    IF ~deposit_sufficient(attached_deposit, storage_byte_cost)
    THEN [err |-> InsufficientPayment, curator_address |-> self_curator]
    ELSE [err |-> Ok, curator_address |-> curator]

\* line 64-72
register_curator(self_curator, attached_deposit, storage_byte_cost, curator) ==
    IF ~curator_is_none(self_curator)
    THEN [err |-> AlreadyRegistered, curator_address |-> self_curator]
    ELSE IF ~deposit_sufficient(attached_deposit, storage_byte_cost)
    THEN [err |-> InsufficientPayment, curator_address |-> self_curator]
    ELSE [err |-> Ok, curator_address |-> curator]

(***************************************************************************)
(* update_weights                                                          *)
(***************************************************************************)
\* mutant: the snapshot starts empty, so only the batch is summed
current_weights_none(m) == [k \in {} |-> U64(0)]

\* line 82-83: the temporary copy of the current weights
current_weights(m) == [k \in MapKeySet(m) |-> MapGet(m, k).weight]

\* HashMap::insert
HashInsert(h, k, w) == [x \in DOMAIN h \cup {k} |-> IF x = k THEN w ELSE h[x]]

\* line 86-88: the updates applied to the copy, in sequence
RECURSIVE apply_updates(_, _)
apply_updates(h, updates) ==
    IF updates = <<>> THEN h
    ELSE apply_updates(HashInsert(h, Head(updates).asset_address, Head(updates).weight),
                       Tail(updates))

\* line 91: the u64 sum of the values of the copy
RECURSIVE SumValues(_, _)
SumValues(h, S) ==
    IF S = {} THEN [value |-> U64(0), overflow |-> FALSE]
    ELSE LET k == CHOOSE x \in S : TRUE
             rest == SumValues(h, S \ {k})
             r == U64Add(rest.value, h[k])
         IN  [value |-> r.value, overflow |-> rest.overflow \/ r.overflow]

total_weight(h) == SumValues(h, DOMAIN h)

\* line 92
weight_sum_valid(total) == total = U64(TotalBps)

\* mutant: a missing curator is not detected
is_registered_unchecked(self_curator) == TRUE

\* line 75-78
is_registered(self_curator) == self_curator # None

\* mutant: the predecessor is not compared with the curator
is_curator_anyone(predecessor, curator) == TRUE

\* line 79
is_curator(predecessor, curator) == predecessor = curator

\* mutant: a new holding is stamped with no timestamp
new_holding_unstamped(weight, block_timestamp) ==
    [balance |-> 0, weight |-> weight, last_price |-> 0, last_updated |-> 0]

\* line 102-107
new_holding(weight, block_timestamp) ==
    [balance |-> 0, weight |-> weight, last_price |-> 0, last_updated |-> block_timestamp]

\* mutant: a stored asset given weight zero is removed from the map
commit_update_dropping_zero(m, update, block_timestamp) ==
    IF MapContains(m, update.asset_address)
    THEN IF update.weight = U64(0)
         THEN LET i == MapIndex(m, update.asset_address)
              IN  [keys |-> SubSeq(m.keys, 1, i - 1) \o SubSeq(m.keys, i + 1, Len(m.keys)),
                   values |-> SubSeq(m.values, 1, i - 1)
                                 \o SubSeq(m.values, i + 1, Len(m.values))]
         ELSE MapInsert(m, update.asset_address,
                        [MapGet(m, update.asset_address) EXCEPT !.weight = update.weight])
    ELSE MapInsert(m, update.asset_address,
                   [balance |-> 0, weight |-> update.weight, last_price |-> 0,
                    last_updated |-> block_timestamp])

\* mutant: every commit re-stamps the whole portfolio
commit_update_restamping(m, update, block_timestamp) ==
    LET n == IF MapContains(m, update.asset_address)
             THEN MapInsert(m, update.asset_address,
                            [MapGet(m, update.asset_address) EXCEPT !.weight = update.weight])
             ELSE MapInsert(m, update.asset_address,
                            [balance |-> 0, weight |-> update.weight, last_price |-> 0,
                             last_updated |-> block_timestamp])
    IN  [n EXCEPT !.values = [i \in 1..Len(n.values) |->
                                [n.values[i] EXCEPT !.last_updated = block_timestamp]]]

\* mutant: the weight of a holding already stored is not overwritten
commit_update_insert_only(m, update, block_timestamp) ==
    IF MapContains(m, update.asset_address)
    THEN m
    ELSE MapInsert(m, update.asset_address,
                   [balance |-> 0, weight |-> update.weight, last_price |-> 0,
                    last_updated |-> block_timestamp])

\* line 96-109: one iteration of the commit loop
commit_update(m, update, block_timestamp) ==
    IF MapContains(m, update.asset_address)
    THEN MapInsert(m, update.asset_address,
                   [MapGet(m, update.asset_address) EXCEPT !.weight = update.weight])
    ELSE MapInsert(m, update.asset_address, new_holding(update.weight, block_timestamp))

\* line 95-110
RECURSIVE commit_updates(_, _, _)
commit_updates(m, updates, block_timestamp) ==
    IF updates = <<>> THEN m
    ELSE commit_updates(commit_update(m, Head(updates), block_timestamp),
                        Tail(updates), block_timestamp)

\* mutant: no access control at all
update_weights_unguarded(self_curator, self_assets, predecessor, updates, block_timestamp, trap_overflow) ==
    LET new_weights == apply_updates(current_weights(self_assets), updates)
        total == total_weight(new_weights)
    IN  IF total.overflow /\ trap_overflow
        THEN [err |-> ArithmeticOverflow, assets |-> self_assets]
        ELSE IF ~weight_sum_valid(total.value)
        THEN [err |-> InvalidWeightSum, assets |-> self_assets]
        ELSE [err |-> Ok,
              assets |-> commit_updates(self_assets, updates, block_timestamp)]

\* mutant: the weight sum is verified before the caller is
update_weights_sum_first(self_curator, self_assets, predecessor, updates, block_timestamp, trap_overflow) ==
    LET new_weights == apply_updates(current_weights(self_assets), updates)
        total == total_weight(new_weights)
    IN  IF total.overflow /\ trap_overflow
        THEN [err |-> ArithmeticOverflow, assets |-> self_assets]
        ELSE IF ~weight_sum_valid(total.value)
        THEN [err |-> InvalidWeightSum, assets |-> self_assets]
        ELSE IF ~is_registered(self_curator)
        THEN [err |-> NotRegistered, assets |-> self_assets]
        ELSE IF ~is_curator(predecessor, self_curator)
        THEN [err |-> Unauthorized, assets |-> self_assets]
        ELSE [err |-> Ok,
              assets |-> commit_updates(self_assets, updates, block_timestamp)]

\* line 74-113
\* trap_overflow: whether the build traps on integer overflow (panic) or wraps
update_weights(self_curator, self_assets, predecessor, updates, block_timestamp, trap_overflow) ==
    IF ~is_registered(self_curator)
    THEN [err |-> NotRegistered, assets |-> self_assets]
    ELSE IF ~is_curator(predecessor, self_curator)
    THEN [err |-> Unauthorized, assets |-> self_assets]
    ELSE LET new_weights == apply_updates(current_weights(self_assets), updates)
             total == total_weight(new_weights)
         IN  IF total.overflow /\ trap_overflow
             THEN [err |-> ArithmeticOverflow, assets |-> self_assets]
             ELSE IF ~weight_sum_valid(total.value)
             THEN [err |-> InvalidWeightSum, assets |-> self_assets]
             ELSE [err |-> Ok,
                   assets |-> commit_updates(self_assets, updates, block_timestamp)]

(***************************************************************************)
(* Views                                                                   *)
(***************************************************************************)
\* mutant: assets of weight zero are left out of the view
get_weights_nonzero(m) ==
    SelectSeq([i \in 1..Len(m.keys) |->
                  [weight |-> m.values[i].weight, asset_address |-> m.keys[i]]],
              LAMBDA w : w.weight # U64(0))

\* line 115-123
get_weights(m) ==
    [i \in 1..Len(m.keys) |->
        [weight |-> m.values[i].weight, asset_address |-> m.keys[i]]]

\* line 125-127
get_assets(m) == m.keys

(***************************************************************************)
(* State machine                                                           *)
(***************************************************************************)
NoOutcome == [method |-> "none"]

Init ==
    /\ overflow_checks \in BOOLEAN
    /\ \E c \in Constructed :
        /\ curator_address = c.self.curator_address
        /\ assets = c.self.assets
        /\ last_rebalance = c.self.last_rebalance
        /\ rebalance_interval = c.self.rebalance_interval
        /\ outcome = c.outcome

RegisterCurator ==
    /\ outcome = NoOutcome
    /\ \E predecessor \in Accounts, curator \in Accounts,
          attached_deposit \in Deposits, storage_byte_cost \in StorageByteCosts :
        LET r == register_curator(curator_address, attached_deposit,
                                  storage_byte_cost, curator)
        IN  /\ curator_address' = r.curator_address
            /\ outcome' = [method |-> "register_curator", predecessor |-> predecessor,
                           curator_address |-> curator,
                           attached_deposit |-> attached_deposit,
                           storage_byte_cost |-> storage_byte_cost, err |-> r.err]
            /\ UNCHANGED <<assets, last_rebalance, rebalance_interval, overflow_checks>>

UpdateWeights ==
    /\ outcome = NoOutcome
    /\ \E predecessor \in Accounts, updates \in Batches,
          block_timestamp \in Timestamps :
        LET r == update_weights(curator_address, assets, predecessor, updates,
                                block_timestamp, overflow_checks)
        IN  /\ assets' = r.assets
            /\ outcome' = [method |-> "update_weights", predecessor |-> predecessor,
                           updates |-> updates, block_timestamp |-> block_timestamp,
                           err |-> r.err]
            /\ UNCHANGED <<curator_address, last_rebalance, rebalance_interval, overflow_checks>>

GetWeights ==
    /\ outcome = NoOutcome
    /\ outcome' = [method |-> "get_weights", err |-> Ok, ret |-> get_weights(assets)]
    /\ UNCHANGED <<curator_address, assets, last_rebalance, rebalance_interval,
                   overflow_checks>>

GetAssets ==
    /\ outcome = NoOutcome
    /\ outcome' = [method |-> "get_assets", err |-> Ok, ret |-> get_assets(assets)]
    /\ UNCHANGED <<curator_address, assets, last_rebalance, rebalance_interval,
                   overflow_checks>>

\* the host returns the execution outcome to the caller; calls are serialized,
\* each one awaited before the next is sent
Complete ==
    /\ outcome # NoOutcome
    /\ outcome' = NoOutcome
    /\ UNCHANGED <<curator_address, assets, last_rebalance, rebalance_interval,
                   overflow_checks>>

Next == RegisterCurator \/ UpdateWeights \/ GetWeights \/ GetAssets \/ Complete

Spec == Init /\ [][Next]_vars

(***************************************************************************)
(* Vocabulary of the properties: the exact (unbounded) sum of weights and  *)
(* the snapshot a batch describes, stated without the contract's code.     *)
(***************************************************************************)
StoredIds(m) == {m.keys[i] : i \in 1..Len(m.keys)}

StoredHolding(m, id) == m.values[CHOOSE i \in 1..Len(m.keys) : m.keys[i] = id]

UpdatedIds(updates) == {updates[i].asset_address : i \in 1..Len(updates)}

\* the weight of the last entry of the batch that names id
LastWeight(updates, id) ==
    LET last == CHOOSE i \in 1..Len(updates) :
                    /\ updates[i].asset_address = id
                    /\ \A j \in (i + 1)..Len(updates) : updates[j].asset_address # id
    IN  updates[last].weight

MergedIds(m, updates) == StoredIds(m) \cup UpdatedIds(updates)

MergedWeight(m, updates, id) ==
    IF id \in UpdatedIds(updates) THEN LastWeight(updates, id)
    ELSE StoredHolding(m, id).weight

\* sum over ids of w[id] as a natural number: carries * 2^64 + value
RECURSIVE ExactSum(_, _)
ExactSum(w, ids) ==
    IF ids = {} THEN [value |-> U64(0), carries |-> 0]
    ELSE LET id == CHOOSE x \in ids : TRUE
             rest == ExactSum(w, ids \ {id})
             r == U64Add(rest.value, w[id])
         IN  [value |-> r.value,
              carries |-> rest.carries + (IF r.overflow THEN 1 ELSE 0)]

SumsToTotalBps(w, ids) ==
    ExactSum(w, ids) = [value |-> U64(TotalBps), carries |-> 0]

StoredSumsToTotalBps(m) ==
    SumsToTotalBps([id \in StoredIds(m) |-> StoredHolding(m, id).weight], StoredIds(m))

MergedSumsToTotalBps(m, updates) ==
    SumsToTotalBps([id \in MergedIds(m, updates) |-> MergedWeight(m, updates, id)],
                   MergedIds(m, updates))

WithinTotalBps(w) == w[2] = 0 /\ w[3] = 0 /\ w[4] = 0 /\ w[1] <= TotalBps

RegistryUnchanged ==
    UNCHANGED <<curator_address, assets, last_rebalance, rebalance_interval>>

ScenarioB ==
    <<[weight |-> U64(6000), asset_address |-> "asset1.near"],
      [weight |-> U64(4000), asset_address |-> "asset2.near"]>>

(***************************************************************************)
(* Properties                                                              *)
(***************************************************************************)

\* C1: right after every update_weights call that succeeds, the weights of
\* all stored assets sum to exactly 10000.
C1_SumInvariant ==
    (outcome.method = "update_weights" /\ outcome.err = Ok)
        => StoredSumsToTotalBps(assets)

\* C2: an update_weights call by the registered curator whose merged
\* snapshot does not sum to exactly 10000 fails with InvalidWeightSum and
\* leaves the stored asset map as it was.
C2_Atomicity ==
    [][(/\ curator_address # None
        /\ outcome'.method = "update_weights"
        /\ outcome'.predecessor = curator_address
        /\ ~MergedSumsToTotalBps(assets, outcome'.updates))
       => (outcome'.err = InvalidWeightSum /\ assets' = assets)]_vars

\* C3: with a curator registered, update_weights from any other identity
\* fails with Unauthorized and changes nothing, whatever the batch.
C3_Unauthorized ==
    [][(/\ curator_address # None
        /\ outcome'.method = "update_weights"
        /\ outcome'.predecessor # curator_address)
       => (outcome'.err = Unauthorized /\ RegistryUnchanged)]_vars

C3_Witness ==
    /\ curator_address # None
    /\ outcome.method = "update_weights"
    /\ outcome.predecessor # curator_address
    /\ outcome.err = Unauthorized
    /\ MergedSumsToTotalBps(assets, outcome.updates)

\* C4: while no curator is registered, update_weights fails with
\* NotRegistered for every caller and batch and changes nothing.
C4_NotRegistered ==
    [][(curator_address = None /\ outcome'.method = "update_weights")
       => (outcome'.err = NotRegistered /\ RegistryUnchanged)]_vars

C4_Witness ==
    /\ curator_address = None
    /\ outcome.method = "update_weights"
    /\ outcome.err = NotRegistered
    /\ MergedSumsToTotalBps(assets, outcome.updates)

\* C5: once a curator is registered, every register_curator call fails with
\* AlreadyRegistered, whatever the candidate, caller and deposit, and the
\* stored curator stays.
C5_SingleRegistration ==
    [][(curator_address # None /\ outcome'.method = "register_curator")
       => (outcome'.err = AlreadyRegistered /\ curator_address' = curator_address)]_vars

C5_Witness ==
    /\ outcome.method = "register_curator"
    /\ outcome.err = AlreadyRegistered
    /\ outcome.curator_address # curator_address
    /\ outcome.attached_deposit > outcome.storage_byte_cost * StorageBytes

\* C6: the curator is write-once: a step from a state where it is set never
\* changes it.
C6_WriteOnce ==
    [][curator_address # None => curator_address' = curator_address]_vars

C6_Witness ==
    /\ curator_address # None
    /\ Len(assets.keys) > 0
    /\ outcome.method = "register_curator"
    /\ outcome.curator_address # curator_address
    /\ outcome.attached_deposit = outcome.storage_byte_cost * StorageBytes

\* C7: with no curator set, register_curator succeeds exactly when the
\* deposit is at least storage_byte_cost * 100 and then stores the candidate;
\* otherwise it fails with InsufficientPayment and the curator stays unset.
C7_Registration ==
    [][(curator_address = None /\ outcome'.method = "register_curator")
       => IF outcome'.attached_deposit >= outcome'.storage_byte_cost * StorageBytes
          THEN outcome'.err = Ok /\ curator_address' = outcome'.curator_address
          ELSE outcome'.err = InsufficientPayment /\ curator_address' = None]_vars

C7_Witness ==
    /\ outcome.method = "register_curator"
    /\ outcome.err = Ok
    /\ outcome.attached_deposit = outcome.storage_byte_cost * StorageBytes
    /\ outcome.predecessor # outcome.curator_address
    /\ curator_address = outcome.curator_address

\* C8: after a successful update_weights, get_weights returns one pair per
\* stored asset: the batch's (last) weight for the identifiers of the batch,
\* the previous weight for the others, and nothing else; the batch of
\* scenario B sent by the curator to an empty registry succeeds.
C8_GetWeightsAfterUpdate ==
    [][/\ (outcome'.method = "update_weights" /\ outcome'.err = Ok)
          => LET ret == get_weights(assets')
                 ids == MergedIds(assets, outcome'.updates)
             IN  /\ Len(ret) = Cardinality(ids)
                 /\ \A id \in ids : \E i \in 1..Len(ret) :
                        /\ ret[i].asset_address = id
                        /\ ret[i].weight = MergedWeight(assets, outcome'.updates, id)
       /\ (/\ outcome'.method = "update_weights"
           /\ outcome'.predecessor = curator_address
           /\ outcome'.updates = ScenarioB
           /\ assets = EmptyMap)
          => (outcome'.err = Ok /\ get_weights(assets') = ScenarioB)]_vars

C8_Witness ==
    /\ outcome.method = "update_weights"
    /\ outcome.err = Ok
    /\ outcome.updates = ScenarioB
    /\ get_weights(assets) = ScenarioB

\* C9: a successful batch that names an identifier not yet stored inserts a
\* holding for it with balance 0, last_price 0, the batch's weight and the
\* timestamp of the call.
C9_LazyCreation ==
    [][(outcome'.method = "update_weights" /\ outcome'.err = Ok)
       => \A id \in UpdatedIds(outcome'.updates) \ StoredIds(assets) :
            /\ id \in StoredIds(assets')
            /\ StoredHolding(assets', id) =
                  [balance |-> 0, weight |-> LastWeight(outcome'.updates, id),
                   last_price |-> 0, last_updated |-> outcome'.block_timestamp]]_vars

\* a second holding created by a later call than the first
C9_Witness ==
    /\ outcome.method = "update_weights"
    /\ outcome.err = Ok
    /\ Len(assets.keys) = 2
    /\ UpdatedIds(outcome.updates) = {assets.keys[2]}
    /\ assets.values[2].last_updated = outcome.block_timestamp
    /\ assets.values[1].last_updated # outcome.block_timestamp
    /\ assets.values[2].balance = 0
    /\ assets.values[2].last_price = 0

\* C10: in every reachable state the weight of every stored asset lies in
\* [0, 10000].
C10_WeightRange ==
    \A i \in 1..Len(assets.values) : WithinTotalBps(assets.values[i].weight)

SeqRange(s) == {s[i] : i \in 1..Len(s)}

\* C11: get_weights and get_assets always succeed and change nothing; both
\* list every stored asset exactly once (nothing when none is stored) and
\* name the same identifiers.
C11_Views ==
    [][/\ outcome'.method = "get_weights"
          => /\ outcome'.err = Ok
             /\ RegistryUnchanged
             /\ Len(outcome'.ret) = Cardinality(StoredIds(assets))
             /\ {w.asset_address : w \in SeqRange(outcome'.ret)} = StoredIds(assets)
             /\ {w.asset_address : w \in SeqRange(outcome'.ret)}
                    = SeqRange(get_assets(assets))
             /\ \A w \in SeqRange(outcome'.ret) :
                    w.weight = StoredHolding(assets, w.asset_address).weight
       /\ outcome'.method = "get_assets"
          => /\ outcome'.err = Ok
             /\ RegistryUnchanged
             /\ Len(outcome'.ret) = Cardinality(StoredIds(assets))
             /\ SeqRange(outcome'.ret) = StoredIds(assets)
             /\ SeqRange(outcome'.ret)
                    = {w.asset_address : w \in SeqRange(get_weights(assets))}]_vars

\* get_weights on a portfolio holding an asset of weight zero
C11_Witness ==
    /\ outcome.method = "get_weights"
    /\ Len(outcome.ret) = 2
    /\ outcome.ret[1].asset_address # outcome.ret[2].asset_address
    /\ \E i \in 1..2 : outcome.ret[i].weight = U64(0)

\* C12: a successful batch that names an asset already stored refreshes that
\* holding's last_updated to the timestamp of the call.
C12_LastUpdatedRefreshed ==
    [][(outcome'.method = "update_weights" /\ outcome'.err = Ok)
       => \A id \in UpdatedIds(outcome'.updates) \cap StoredIds(assets) :
            StoredHolding(assets', id).last_updated = outcome'.block_timestamp]_vars

\* C13: update_weights never changes the balance or last_price of a stored
\* holding, and leaves every field of the holdings its batch does not name.
C13_UpdateFrame ==
    [][outcome'.method = "update_weights"
       => /\ \A id \in StoredIds(assets) :
                /\ id \in StoredIds(assets')
                /\ StoredHolding(assets', id).balance = StoredHolding(assets, id).balance
                /\ StoredHolding(assets', id).last_price
                       = StoredHolding(assets, id).last_price
          /\ \A id \in StoredIds(assets) \ UpdatedIds(outcome'.updates) :
                StoredHolding(assets', id) = StoredHolding(assets, id)]_vars

\* an accepted batch naming the first of two holdings, both stored by
\* earlier calls
C13_Witness ==
    /\ outcome.method = "update_weights"
    /\ outcome.err = Ok
    /\ Len(assets.keys) = 2
    /\ UpdatedIds(outcome.updates) = {assets.keys[1]}
    /\ assets.values[1].last_updated # outcome.block_timestamp
    /\ assets.values[2].last_updated # outcome.block_timestamp

HasDuplicates(updates) == Cardinality(UpdatedIds(updates)) < Len(updates)

\* the u64 check of the snapshot in which the last entry of each identifier
\* counts: passed when the sum is 10000 modulo 2^64 and no overflow trapped
LastWinsCheckPasses(m, updates, trap) ==
    LET ids == MergedIds(m, updates)
        t == ExactSum([id \in ids |-> MergedWeight(m, updates, id)], ids)
    IN  t.value = U64(TotalBps) /\ (t.carries = 0 \/ ~trap)

\* a step of a batch with duplicates sent by the curator: the check counts
\* the last weight of each identifier and the commit stores it
LastWriteWinsStep ==
    (/\ outcome'.method = "update_weights"
     /\ curator_address # None
     /\ outcome'.predecessor = curator_address
     /\ HasDuplicates(outcome'.updates))
    => /\ (outcome'.err = Ok)
             <=> LastWinsCheckPasses(assets, outcome'.updates, overflow_checks)
       /\ outcome'.err = Ok
             => \A id \in UpdatedIds(outcome'.updates) :
                   StoredHolding(assets', id).weight
                       = LastWeight(outcome'.updates, id)

\* The part of C14 that holds: last write wins in validation and in commit.
C14_LastWriteWins == [][LastWriteWinsStep]_vars

\* C14: in a batch with duplicates the last entry of an identifier wins in
\* validation and in commit, and after a successful call the stored weights
\* sum to exactly 10000.
C14_DuplicatesAgree ==
    [][/\ LastWriteWinsStep
       /\ (/\ outcome'.method = "update_weights"
           /\ outcome'.err = Ok
           /\ HasDuplicates(outcome'.updates))
          => StoredSumsToTotalBps(assets')]_vars

\* C15: no step removes a stored asset identifier: what get_assets listed
\* before an operation it lists after it.
C15_AssetsNeverShrink ==
    [][SeqRange(get_assets(assets)) \subseteq SeqRange(get_assets(assets'))]_vars

\* an asset stored by an earlier call is given weight zero and stays stored
C15_Witness ==
    /\ outcome.method = "update_weights"
    /\ outcome.err = Ok
    /\ \E i \in 1..Len(assets.keys) :
          /\ assets.keys[i] \in UpdatedIds(outcome.updates)
          /\ LastWeight(outcome.updates, assets.keys[i]) = U64(0)
          /\ assets.values[i].weight = U64(0)
          /\ assets.values[i].last_updated # outcome.block_timestamp

\* C16: update_weights checks registration, then the caller, then the sum:
\* without a curator it fails with NotRegistered and from another identity
\* with Unauthorized whatever the batch, so InvalidWeightSum is only ever
\* returned to the registered curator.
C16_CheckOrder ==
    [][outcome'.method = "update_weights"
       => /\ curator_address = None => outcome'.err = NotRegistered
          /\ (curator_address # None /\ outcome'.predecessor # curator_address)
                => outcome'.err = Unauthorized
          /\ outcome'.err = InvalidWeightSum
                => (curator_address # None /\ outcome'.predecessor = curator_address)]_vars

\* a batch with an invalid sum sent by another identity than the curator
C16_Witness ==
    /\ outcome.method = "update_weights"
    /\ curator_address # None
    /\ outcome.predecessor # curator_address
    /\ outcome.err = Unauthorized
    /\ ~MergedSumsToTotalBps(assets, outcome.updates)
    /\ ~LastWinsCheckPasses(assets, outcome.updates, overflow_checks)

\* what the constructor call recorded in a state (if any) did
ConstructionAsSpecified ==
    /\ outcome.method = "new"
          => IF outcome.rebalance_interval <= 0
             THEN outcome.err = InvalidArgument
             ELSE /\ outcome.err = Ok
                  /\ curator_address = None
                  /\ assets = EmptyMap
                  /\ last_rebalance = 0
                  /\ rebalance_interval = outcome.rebalance_interval
    /\ outcome.method = "default"
          => /\ curator_address = None
             /\ assets = EmptyMap
             /\ last_rebalance = 0
             /\ rebalance_interval = DefaultInterval

\* C17: new fails with InvalidArgument for an interval <= 0 and otherwise
\* gives a registry with no curator, no assets, last_rebalance 0 and the
\* given interval; from then on no step changes rebalance_interval, which
\* stays strictly positive, nor last_rebalance, which stays 0.
C17_IntervalFixed ==
    [][/\ ConstructionAsSpecified
       /\ ConstructionAsSpecified'
       /\ rebalance_interval > 0 /\ last_rebalance = 0
       /\ rebalance_interval' = rebalance_interval
       /\ last_rebalance' = last_rebalance]_vars

\* a registry built by new(1), after a registration and accepted batches
C17_Witness ==
    /\ rebalance_interval = 1
    /\ last_rebalance = 0
    /\ curator_address # None
    /\ Len(assets.keys) = 2
    /\ outcome.method = "update_weights"
    /\ outcome.err = Ok

\* a batch whose entries all name one stored asset and end on another weight
\* than the stored one
SingleAssetChange(m, updates) ==
    /\ updates # <<>>
    /\ \E id \in StoredIds(m) :
          /\ UpdatedIds(updates) = {id}
          /\ LastWeight(updates, id) # StoredHolding(m, id).weight

\* C18: a batch of the curator that names one stored asset only and changes
\* its weight always fails with InvalidWeightSum and changes nothing; an
\* accepted batch that changes a stored weight names another asset too.
C18_NoIsolatedChange ==
    [][(/\ outcome'.method = "update_weights"
        /\ curator_address # None
        /\ outcome'.predecessor = curator_address)
       => /\ SingleAssetChange(assets, outcome'.updates)
                => (outcome'.err = InvalidWeightSum /\ RegistryUnchanged)
          /\ (/\ outcome'.err = Ok
              /\ \E id \in StoredIds(assets) :
                    StoredHolding(assets', id).weight # StoredHolding(assets, id).weight)
                => Cardinality(UpdatedIds(outcome'.updates)) > 1]_vars

\* the batch alone sums to less than 10000
BatchBelowTotalBps(updates) ==
    LET ids == UpdatedIds(updates)
        t == ExactSum([id \in ids |-> LastWeight(updates, id)], ids)
    IN  /\ t.carries = 0
        /\ WithinTotalBps(t.value)
        /\ t.value # U64(TotalBps)

\* C19: the empty batch of the curator fails with InvalidWeightSum when no
\* asset is stored and succeeds, changing no holding, when assets are
\* stored; a batch sent to the empty registry that sums to less than 10000
\* fails and get_weights stays empty.
C19_EmptyBatch ==
    [][(/\ outcome'.method = "update_weights"
        /\ curator_address # None
        /\ outcome'.predecessor = curator_address)
       => /\ (outcome'.updates = <<>> /\ assets = EmptyMap)
                => (outcome'.err = InvalidWeightSum /\ RegistryUnchanged)
          /\ (outcome'.updates = <<>> /\ assets # EmptyMap)
                => (outcome'.err = Ok /\ RegistryUnchanged)
          /\ (assets = EmptyMap /\ BatchBelowTotalBps(outcome'.updates))
                => /\ outcome'.err = InvalidWeightSum
                   /\ RegistryUnchanged
                   /\ get_weights(assets') = <<>>]_vars

\* the empty batch accepted on a stored portfolio
C19_Witness ==
    /\ outcome.method = "update_weights"
    /\ outcome.updates = <<>>
    /\ outcome.err = Ok
    /\ Len(assets.keys) = 2

\* C20: in every reachable state a non-empty asset map implies a registered
\* curator.
C20_AssetsImplyCurator ==
    Len(assets.keys) > 0 => curator_address # None

\* the first holdings appear, under a registered curator
C20_Witness ==
    /\ Len(assets.keys) > 0
    /\ curator_address # None
    /\ outcome.method = "update_weights"
    /\ outcome.err = Ok
    /\ \A i \in 1..Len(assets.values) :
          assets.values[i].last_updated = outcome.block_timestamp

====
